---------------------------- MODULE Spec2Model ----------------------------
(***************************************************************************)
(* Model of principal.py, the fixed-income stock panel.  One execution of  *)
(* the script (one upload + render cycle) is one step.  The state is the   *)
(* history file on disk, the sidebar inputs of the last execution, the     *)
(* frames it computed and the widgets it rendered.                         *)
(*                                                                         *)
(* Conventions.  A cell that pandas may hold as NaN/NA/None/NaT is a tuple *)
(* of length 0 (missing) or 1 (<<v>>).  A text (a Python str: a cell of the *)
(* table, a class label, a category) is the sequence of its Unicode code   *)
(* points, Txt("CDB") = <<67, 68, 66>>; column names, entry types and the  *)
(* names of widgets are strings.  Amounts are integers (exact arithmetic   *)
(* stands for the floats); a percentage is the exact fraction              *)
(* <<numerator, denominator>>; a date is <<y, m, d>>.                      *)
(***************************************************************************)
EXTENDS Integers, Sequences, FiniteSets, TLC

VARIABLES
    hist_file,          \* HIST_FILE on disk: [exists, rows]
    uploaded_file,      \* sidebar: the uploaded file (<<name>>), or NA
    auc_total_convexa,  \* sidebar: firm AuC
    salvar_historico,   \* sidebar: checkbox
    data_ref_input,     \* sidebar: reference date
    df,                 \* the working frame: [columns, rows]
    total_rf,           \* df["valor_rf"].sum()
    contas_com_rf,      \* accounts with valor_rf > 0
    grp_prod,           \* by-product frame
    grp_class,          \* by-class frame
    grp_emissor,        \* by-issuer frame (<<>> when not computed)
    resumo_dia,         \* the batch of the day
    hist_total,         \* monthly total series: month -> sum
    pivot_prod,         \* monthly pivot by product: month -> category -> sum
    pivot_class,        \* monthly pivot by class
    rendered            \* the widgets written to the page by the last run

vars == <<hist_file, uploaded_file, auc_total_convexa, salvar_historico,
          data_ref_input, df, total_rf, contas_com_rf, grp_prod, grp_class,
          grp_emissor, resumo_dia, hist_total, pivot_prod, pivot_class,
          rendered>>

-----------------------------------------------------------------------------
(* Missing values.                                                         *)

NA == <<>>
NaT == <<>>
isna(x) == x = NA

-----------------------------------------------------------------------------
(* Texts: code points, str.upper, str.strip, substring test, order.        *)

\* the characters a text can be written with in a string, by the code point
\* of the first one of each run: U+0020..U+007E without the double quote, the
\* backslash and the grave accent, and U+00C0..U+00FF
CHARS ==
    << <<32, " !">>,
       <<35, "#$%&'()*+,-./0123456789:;<=>?@ABCDEFGHIJKLMNOPQRSTUVWXYZ[">>,
       <<93, "]^_">>,
       <<97, "abcdefghijklmnopqrstuvwxyz{|}~">>,
       <<192, "ÀÁÂÃÄÅÆÇÈÉÊËÌÍÎÏÐÑÒÓÔÕÖ×ØÙÚÛÜÝÞßàáâãäåæçèéêëìíîïðñòóôõö÷øùúûüýþÿ">> >>

CharAt(s, i) == SubSeq(s, i, i)

\* ord(c)
Ord(c) ==
    LET k == CHOOSE k \in DOMAIN CHARS :
                 \E i \in 1..Len(CHARS[k][2]) : CharAt(CHARS[k][2], i) = c
        i == CHOOSE i \in 1..Len(CHARS[k][2]) : CharAt(CHARS[k][2], i) = c
    IN  CHARS[k][1] + i - 1

\* the text written as the string s; any other character is
\* appended by its code point, Txt("CDB") \o <<9>>
Txt(s) == [i \in 1..Len(s) |-> Ord(CharAt(s, i))]

\* str.isspace: the characters str.strip() removes (tab, line feed, vertical
\* tab, form feed, carriage return, the separators U+001C..U+001F, space,
\* next line, no-break space and the Unicode space separators)
WHITESPACE ==
    {9, 10, 11, 12, 13, 28, 29, 30, 31, 32, 133, 160, 5760}
    \cup (8192..8202) \cup {8232, 8233, 8239, 8287, 12288}

\* str.upper of CPython 3.11 (Unicode 14.0), every character it changes.
\* <<first, last, step, delta>>: the characters first, first + step, ..., last
\* map to the character delta further on.
UPPER_RANGES ==
  <<
    <<97, 122, 1, -32>>, <<181, 181, 1, 743>>, <<224, 246, 1, -32>>,
    <<248, 254, 1, -32>>, <<255, 255, 1, 121>>, <<257, 303, 2, -1>>,
    <<305, 305, 1, -232>>, <<307, 311, 2, -1>>, <<314, 328, 2, -1>>,
    <<331, 375, 2, -1>>, <<378, 382, 2, -1>>, <<383, 383, 1, -300>>,
    <<384, 384, 1, 195>>, <<387, 389, 2, -1>>, <<392, 392, 1, -1>>,
    <<396, 396, 1, -1>>, <<402, 402, 1, -1>>, <<405, 405, 1, 97>>,
    <<409, 409, 1, -1>>, <<410, 410, 1, 163>>, <<414, 414, 1, 130>>,
    <<417, 421, 2, -1>>, <<424, 424, 1, -1>>, <<429, 429, 1, -1>>,
    <<432, 432, 1, -1>>, <<436, 438, 2, -1>>, <<441, 441, 1, -1>>,
    <<445, 445, 1, -1>>, <<447, 447, 1, 56>>, <<453, 453, 1, -1>>,
    <<454, 454, 1, -2>>, <<456, 456, 1, -1>>, <<457, 457, 1, -2>>,
    <<459, 459, 1, -1>>, <<460, 460, 1, -2>>, <<462, 476, 2, -1>>,
    <<477, 477, 1, -79>>, <<479, 495, 2, -1>>, <<498, 498, 1, -1>>,
    <<499, 499, 1, -2>>, <<501, 501, 1, -1>>, <<505, 543, 2, -1>>,
    <<547, 563, 2, -1>>, <<572, 572, 1, -1>>, <<575, 576, 1, 10815>>,
    <<578, 578, 1, -1>>, <<583, 591, 2, -1>>, <<592, 592, 1, 10783>>,
    <<593, 593, 1, 10780>>, <<594, 594, 1, 10782>>, <<595, 595, 1, -210>>,
    <<596, 596, 1, -206>>, <<598, 599, 1, -205>>, <<601, 601, 1, -202>>,
    <<603, 603, 1, -203>>, <<604, 604, 1, 42319>>, <<608, 608, 1, -205>>,
    <<609, 609, 1, 42315>>, <<611, 611, 1, -207>>, <<613, 613, 1, 42280>>,
    <<614, 614, 1, 42308>>, <<616, 616, 1, -209>>, <<617, 617, 1, -211>>,
    <<618, 618, 1, 42308>>, <<619, 619, 1, 10743>>, <<620, 620, 1, 42305>>,
    <<623, 623, 1, -211>>, <<625, 625, 1, 10749>>, <<626, 626, 1, -213>>,
    <<629, 629, 1, -214>>, <<637, 637, 1, 10727>>, <<640, 640, 1, -218>>,
    <<642, 642, 1, 42307>>, <<643, 643, 1, -218>>, <<647, 647, 1, 42282>>,
    <<648, 648, 1, -218>>, <<649, 649, 1, -69>>, <<650, 651, 1, -217>>,
    <<652, 652, 1, -71>>, <<658, 658, 1, -219>>, <<669, 669, 1, 42261>>,
    <<670, 670, 1, 42258>>, <<837, 837, 1, 84>>, <<881, 883, 2, -1>>,
    <<887, 887, 1, -1>>, <<891, 893, 1, 130>>, <<940, 940, 1, -38>>,
    <<941, 943, 1, -37>>, <<945, 961, 1, -32>>, <<962, 962, 1, -31>>,
    <<963, 971, 1, -32>>, <<972, 972, 1, -64>>, <<973, 974, 1, -63>>,
    <<976, 976, 1, -62>>, <<977, 977, 1, -57>>, <<981, 981, 1, -47>>,
    <<982, 982, 1, -54>>, <<983, 983, 1, -8>>, <<985, 1007, 2, -1>>,
    <<1008, 1008, 1, -86>>, <<1009, 1009, 1, -80>>, <<1010, 1010, 1, 7>>,
    <<1011, 1011, 1, -116>>, <<1013, 1013, 1, -96>>, <<1016, 1016, 1, -1>>,
    <<1019, 1019, 1, -1>>, <<1072, 1103, 1, -32>>, <<1104, 1119, 1, -80>>,
    <<1121, 1153, 2, -1>>, <<1163, 1215, 2, -1>>, <<1218, 1230, 2, -1>>,
    <<1231, 1231, 1, -15>>, <<1233, 1327, 2, -1>>, <<1377, 1414, 1, -48>>,
    <<4304, 4346, 1, 3008>>, <<4349, 4351, 1, 3008>>, <<5112, 5117, 1, -8>>,
    <<7296, 7296, 1, -6254>>, <<7297, 7297, 1, -6253>>,
    <<7298, 7298, 1, -6244>>, <<7299, 7300, 1, -6242>>,
    <<7301, 7301, 1, -6243>>, <<7302, 7302, 1, -6236>>,
    <<7303, 7303, 1, -6181>>, <<7304, 7304, 1, 35266>>,
    <<7545, 7545, 1, 35332>>, <<7549, 7549, 1, 3814>>,
    <<7566, 7566, 1, 35384>>, <<7681, 7829, 2, -1>>, <<7835, 7835, 1, -59>>,
    <<7841, 7935, 2, -1>>, <<7936, 7943, 1, 8>>, <<7952, 7957, 1, 8>>,
    <<7968, 7975, 1, 8>>, <<7984, 7991, 1, 8>>, <<8000, 8005, 1, 8>>,
    <<8017, 8023, 2, 8>>, <<8032, 8039, 1, 8>>, <<8048, 8049, 1, 74>>,
    <<8050, 8053, 1, 86>>, <<8054, 8055, 1, 100>>, <<8056, 8057, 1, 128>>,
    <<8058, 8059, 1, 112>>, <<8060, 8061, 1, 126>>, <<8112, 8113, 1, 8>>,
    <<8126, 8126, 1, -7205>>, <<8144, 8145, 1, 8>>, <<8160, 8161, 1, 8>>,
    <<8165, 8165, 1, 7>>, <<8526, 8526, 1, -28>>, <<8560, 8575, 1, -16>>,
    <<8580, 8580, 1, -1>>, <<9424, 9449, 1, -26>>, <<11312, 11359, 1, -48>>,
    <<11361, 11361, 1, -1>>, <<11365, 11365, 1, -10795>>,
    <<11366, 11366, 1, -10792>>, <<11368, 11372, 2, -1>>,
    <<11379, 11379, 1, -1>>, <<11382, 11382, 1, -1>>,
    <<11393, 11491, 2, -1>>, <<11500, 11502, 2, -1>>,
    <<11507, 11507, 1, -1>>, <<11520, 11557, 1, -7264>>,
    <<11559, 11559, 1, -7264>>, <<11565, 11565, 1, -7264>>,
    <<42561, 42605, 2, -1>>, <<42625, 42651, 2, -1>>,
    <<42787, 42799, 2, -1>>, <<42803, 42863, 2, -1>>,
    <<42874, 42876, 2, -1>>, <<42879, 42887, 2, -1>>,
    <<42892, 42892, 1, -1>>, <<42897, 42899, 2, -1>>,
    <<42900, 42900, 1, 48>>, <<42903, 42921, 2, -1>>,
    <<42933, 42947, 2, -1>>, <<42952, 42954, 2, -1>>,
    <<42961, 42961, 1, -1>>, <<42967, 42969, 2, -1>>,
    <<42998, 42998, 1, -1>>, <<43859, 43859, 1, -928>>,
    <<43888, 43967, 1, -38864>>, <<65345, 65370, 1, -32>>,
    <<66600, 66639, 1, -40>>, <<66776, 66811, 1, -40>>,
    <<66967, 67003, 2, -39>>, <<66968, 66976, 2, -39>>,
    <<66980, 66992, 2, -39>>, <<66996, 67000, 2, -39>>,
    <<67004, 67004, 1, -39>>, <<68800, 68850, 1, -64>>,
    <<71872, 71903, 1, -32>>, <<93792, 93823, 1, -32>>,
    <<125218, 125251, 1, -34>>
  >>

UPPER_SPECIAL ==
  <<
    <<223, <<83, 83>>>>, <<329, <<700, 78>>>>, <<496, <<74, 780>>>>,
    <<912, <<921, 776, 769>>>>, <<944, <<933, 776, 769>>>>,
    <<1415, <<1333, 1362>>>>, <<7830, <<72, 817>>>>, <<7831, <<84, 776>>>>,
    <<7832, <<87, 778>>>>, <<7833, <<89, 778>>>>, <<7834, <<65, 702>>>>,
    <<8016, <<933, 787>>>>, <<8018, <<933, 787, 768>>>>,
    <<8020, <<933, 787, 769>>>>, <<8022, <<933, 787, 834>>>>,
    <<8064, <<7944, 921>>>>, <<8065, <<7945, 921>>>>,
    <<8066, <<7946, 921>>>>, <<8067, <<7947, 921>>>>,
    <<8068, <<7948, 921>>>>, <<8069, <<7949, 921>>>>,
    <<8070, <<7950, 921>>>>, <<8071, <<7951, 921>>>>,
    <<8072, <<7944, 921>>>>, <<8073, <<7945, 921>>>>,
    <<8074, <<7946, 921>>>>, <<8075, <<7947, 921>>>>,
    <<8076, <<7948, 921>>>>, <<8077, <<7949, 921>>>>,
    <<8078, <<7950, 921>>>>, <<8079, <<7951, 921>>>>,
    <<8080, <<7976, 921>>>>, <<8081, <<7977, 921>>>>,
    <<8082, <<7978, 921>>>>, <<8083, <<7979, 921>>>>,
    <<8084, <<7980, 921>>>>, <<8085, <<7981, 921>>>>,
    <<8086, <<7982, 921>>>>, <<8087, <<7983, 921>>>>,
    <<8088, <<7976, 921>>>>, <<8089, <<7977, 921>>>>,
    <<8090, <<7978, 921>>>>, <<8091, <<7979, 921>>>>,
    <<8092, <<7980, 921>>>>, <<8093, <<7981, 921>>>>,
    <<8094, <<7982, 921>>>>, <<8095, <<7983, 921>>>>,
    <<8096, <<8040, 921>>>>, <<8097, <<8041, 921>>>>,
    <<8098, <<8042, 921>>>>, <<8099, <<8043, 921>>>>,
    <<8100, <<8044, 921>>>>, <<8101, <<8045, 921>>>>,
    <<8102, <<8046, 921>>>>, <<8103, <<8047, 921>>>>,
    <<8104, <<8040, 921>>>>, <<8105, <<8041, 921>>>>,
    <<8106, <<8042, 921>>>>, <<8107, <<8043, 921>>>>,
    <<8108, <<8044, 921>>>>, <<8109, <<8045, 921>>>>,
    <<8110, <<8046, 921>>>>, <<8111, <<8047, 921>>>>,
    <<8114, <<8122, 921>>>>, <<8115, <<913, 921>>>>, <<8116, <<902, 921>>>>,
    <<8118, <<913, 834>>>>, <<8119, <<913, 834, 921>>>>,
    <<8124, <<913, 921>>>>, <<8130, <<8138, 921>>>>, <<8131, <<919, 921>>>>,
    <<8132, <<905, 921>>>>, <<8134, <<919, 834>>>>,
    <<8135, <<919, 834, 921>>>>, <<8140, <<919, 921>>>>,
    <<8146, <<921, 776, 768>>>>, <<8147, <<921, 776, 769>>>>,
    <<8150, <<921, 834>>>>, <<8151, <<921, 776, 834>>>>,
    <<8162, <<933, 776, 768>>>>, <<8163, <<933, 776, 769>>>>,
    <<8164, <<929, 787>>>>, <<8166, <<933, 834>>>>,
    <<8167, <<933, 776, 834>>>>, <<8178, <<8186, 921>>>>,
    <<8179, <<937, 921>>>>, <<8180, <<911, 921>>>>, <<8182, <<937, 834>>>>,
    <<8183, <<937, 834, 921>>>>, <<8188, <<937, 921>>>>,
    <<64256, <<70, 70>>>>, <<64257, <<70, 73>>>>, <<64258, <<70, 76>>>>,
    <<64259, <<70, 70, 73>>>>, <<64260, <<70, 70, 76>>>>,
    <<64261, <<83, 84>>>>, <<64262, <<83, 84>>>>, <<64275, <<1348, 1350>>>>,
    <<64276, <<1348, 1333>>>>, <<64277, <<1348, 1339>>>>,
    <<64278, <<1358, 1350>>>>, <<64279, <<1348, 1341>>>>
  >>

\* the upper case of one character: a text of one to three characters
UpperChar(c) ==
    IF \E k \in DOMAIN UPPER_SPECIAL : UPPER_SPECIAL[k][1] = c
    THEN UPPER_SPECIAL[CHOOSE k \in DOMAIN UPPER_SPECIAL : UPPER_SPECIAL[k][1] = c][2]
    ELSE IF \E k \in DOMAIN UPPER_RANGES :
                /\ UPPER_RANGES[k][1] <= c
                /\ c <= UPPER_RANGES[k][2]
                /\ (c - UPPER_RANGES[k][1]) % UPPER_RANGES[k][3] = 0
         THEN <<c + UPPER_RANGES[CHOOSE k \in DOMAIN UPPER_RANGES :
                                    /\ UPPER_RANGES[k][1] <= c
                                    /\ c <= UPPER_RANGES[k][2]
                                    /\ (c - UPPER_RANGES[k][1]) % UPPER_RANGES[k][3] = 0][4]>>
         ELSE <<c>>

RECURSIVE upper(_)
upper(s) ==
    IF Len(s) = 0 THEN <<>>
    ELSE UpperChar(s[1]) \o upper(Tail(s))

RECURSIVE lstrip(_)
lstrip(s) ==
    IF Len(s) > 0 /\ s[1] \in WHITESPACE
    THEN lstrip(Tail(s))
    ELSE s

RECURSIVE rstrip(_)
rstrip(s) ==
    IF Len(s) > 0 /\ s[Len(s)] \in WHITESPACE
    THEN rstrip(SubSeq(s, 1, Len(s) - 1))
    ELSE s

strip(s) == rstrip(lstrip(s))

\* Python's  sub in s
Contains(sub, s) ==
    \E i \in 1..(Len(s) - Len(sub) + 1) : SubSeq(s, i, i + Len(sub) - 1) = sub

\* str(x) of a text cell: the text itself, "nan" for a missing cell
str(cell) == IF isna(cell) THEN Txt("nan") ELSE cell[1]

\* Python's  a < b  on two texts: by code point, a proper prefix first
RECURSIVE StrLess(_, _)
StrLess(a, b) ==
    IF Len(b) = 0 THEN FALSE
    ELSE IF Len(a) = 0 THEN TRUE
    ELSE IF a[1] = b[1] THEN StrLess(Tail(a), Tail(b))
    ELSE a[1] < b[1]

-----------------------------------------------------------------------------
(* Value resolver.                                                         *)

Min(a, b) == IF b < a THEN b ELSE a

\* mutant: the larger of the two curves when both are present
escolher_valor_rf_max(row) ==
    LET vb_cli == row.valor_bruto_cliente
        vb_mer == row.valor_bruto_mercado
    IN  IF isna(vb_cli) /\ isna(vb_mer) THEN 0
        ELSE IF isna(vb_cli) THEN vb_mer[1]
        ELSE IF isna(vb_mer) THEN vb_cli[1]
        ELSE IF vb_cli[1] < vb_mer[1] THEN vb_mer[1] ELSE vb_cli[1]

escolher_valor_rf(row) ==
    LET vb_cli == row.valor_bruto_cliente
        vb_mer == row.valor_bruto_mercado
    IN  IF isna(vb_cli) /\ isna(vb_mer) THEN 0
        ELSE IF isna(vb_cli) THEN vb_mer[1]
        ELSE IF isna(vb_mer) THEN vb_cli[1]
        ELSE Min(vb_cli[1], vb_mer[1])

-----------------------------------------------------------------------------
(* Classifier.                                                             *)

TESOURO_PREFIX == Txt("TESOURO DIRETO")
BANCARIOS == {Txt("CDB"), Txt("LCA"), Txt("LCI"), Txt("LC"), Txt("LIG"), Txt("LCD")}
CREDITO_PRIVADO ==
    {Txt("CRA"), Txt("CRI"), Txt("CDCA"), Txt("DEBENTURE"), Txt("DEBÊNTURE")}
TPF == {Txt("NTNB"), Txt("LFT"), Txt("NTNF"), Txt("NTNB-P"), Txt("LTN")}
BANCARIOS_EX_FGC == {Txt("LF"), Txt("LFSN"), Txt("LFSC")}

\* mutant: the code sets are tried before the Tesouro Direto marker
classificar_linha_conjuntos_antes(tipo_produto, nome_ativo) ==
    LET tp == strip(upper(str(tipo_produto)))
        nome == strip(upper(str(nome_ativo)))
    IN  IF tp \in BANCARIOS THEN Txt("Bancário")
        ELSE IF tp \in CREDITO_PRIVADO THEN Txt("Crédito Privado")
        ELSE IF tp \in TPF THEN Txt("TPF")
        ELSE IF tp \in BANCARIOS_EX_FGC THEN Txt("Bancário ex-FGC")
        ELSE IF Contains(TESOURO_PREFIX, tp) \/ Contains(TESOURO_PREFIX, nome)
        THEN Txt("Tesouro")
        ELSE Txt("Outros")

classificar_linha(tipo_produto, nome_ativo) ==
    LET tp == strip(upper(str(tipo_produto)))
        nome == strip(upper(str(nome_ativo)))
    IN  IF Contains(TESOURO_PREFIX, tp) \/ Contains(TESOURO_PREFIX, nome)
        THEN Txt("Tesouro")
        ELSE IF tp \in BANCARIOS THEN Txt("Bancário")
        ELSE IF tp \in CREDITO_PRIVADO THEN Txt("Crédito Privado")
        ELSE IF tp \in TPF THEN Txt("TPF")
        ELSE IF tp \in BANCARIOS_EX_FGC THEN Txt("Bancário ex-FGC")
        ELSE Txt("Outros")

-----------------------------------------------------------------------------
(* Sequences and frames.                                                   *)

RECURSIVE SumCol(_, _)
SumCol(rows, col) ==
    IF Len(rows) = 0 THEN 0 ELSE rows[1][col] + SumCol(Tail(rows), col)

\* group keys in the order pandas lists them: ascending, the missing key last
KeyLess(a, b) ==
    IF isna(a) THEN FALSE
    ELSE IF isna(b) THEN TRUE
    ELSE StrLess(a[1], b[1])

RECURSIVE SortKeys(_)
SortKeys(S) ==
    IF S = {} THEN <<>>
    ELSE LET m == CHOOSE k \in S : \A j \in S \ {k} : KeyLess(k, j)
         IN  <<m>> \o SortKeys(S \ {m})

RECURSIVE GroupRows(_, _, _)
GroupRows(keys, rows, col) ==
    IF Len(keys) = 0 THEN <<>>
    ELSE <<(col :> keys[1]) @@
           [auc_rf |-> SumCol(SelectSeq(rows, LAMBDA r : r[col] = keys[1]),
                              "valor_rf")]>>
         \o GroupRows(Tail(keys), rows, col)

\* mutant: groupby without dropna=False, the rows with a missing key are dropped
groupby_sum_dropna(d, col) ==
    GroupRows(SortKeys({d.rows[i][col] : i \in DOMAIN d.rows} \ {NA}), d.rows, col)

\* df.groupby(col, dropna=False)["valor_rf"].sum().reset_index()
\*   .rename(columns={"valor_rf": "auc_rf"})
groupby_sum(d, col) ==
    GroupRows(SortKeys({d.rows[i][col] : i \in DOMAIN d.rows}), d.rows, col)

\* auc_rf / total_rf * 100 if total_rf > 0 else 0.0
pct_estoque_rf(auc_rf, total) ==
    IF total > 0 THEN <<auc_rf * 100, total>> ELSE <<0, 1>>

\* mutant: the ratio is left as a fraction of one instead of a percentage
pct_auc_convexa_fracao(auc_rf, auc) ==
    IF auc > 0 THEN <<auc_rf, auc>> ELSE <<0, 1>>

\* auc_rf / auc_total_convexa * 100 if auc_total_convexa > 0 else 0.0
pct_auc_convexa(auc_rf, auc) ==
    IF auc > 0 THEN <<auc_rf * 100, auc>> ELSE <<0, 1>>

\* the two percentage columns of a frame of groups
com_pct(grp, total, auc) ==
    [i \in 1..Len(grp) |->
        ("pct_estoque_rf" :> pct_estoque_rf(grp[i].auc_rf, total))
        @@ ("pct_auc_convexa" :> pct_auc_convexa(grp[i].auc_rf, auc))
        @@ grp[i]]

-----------------------------------------------------------------------------
(* Validation and normalisation of the uploaded table.                     *)

required_base == <<"Conta", "Produto", "Ativo">>
value_cols == <<"Valor Bruto - Curva Cliente", "Valor Bruto - Curva Mercado">>

rename_dict ==
    ("Conta" :> "conta") @@ ("Nome" :> "cliente") @@ ("Emissor" :> "emissor")
    @@ ("Produto" :> "tipo_produto") @@ ("Ativo" :> "ativo")
    @@ ("Valor Bruto - Curva Cliente" :> "valor_bruto_cliente")
    @@ ("Valor Bruto - Curva Mercado" :> "valor_bruto_mercado")
    @@ ("Valor Líquido - Curva Cliente" :> "valor_liquido_cliente")

NUMERIC_COLS ==
    {"valor_bruto_cliente", "valor_bruto_mercado", "valor_liquido_cliente"}

missing_base(df_raw) ==
    SelectSeq(required_base, LAMBDA c : c \notin df_raw.columns)

no_value_col(df_raw) ==
    \A i \in DOMAIN value_cols : value_cols[i] \notin df_raw.columns

\* pd.to_numeric(errors="coerce"): a number stays, anything else is missing.
\* A cell of a value column that holds a text is the pair <<text, "str">>.
to_numeric(cell) == IF Len(cell) = 1 THEN cell ELSE NA

Rename(c) == IF c \in DOMAIN rename_dict THEN rename_dict[c] ELSE c

RECURSIVE NormRows(_, _, _, _)
NormRows(raw_rows, raw_cols, cols, data) ==
    IF Len(raw_rows) = 0 THEN <<>>
    ELSE LET raw == raw_rows[1]
             renamed == {Rename(c) : c \in raw_cols}
             RawOf(c) == CHOOSE r \in raw_cols : Rename(r) = c
             cell(c) ==
                 IF c = "data_ref" THEN data
                 ELSE IF c \in renamed
                      THEN IF c \in NUMERIC_COLS THEN to_numeric(raw[RawOf(c)])
                           ELSE raw[RawOf(c)]
                 ELSE IF c = "cliente" THEN <<Txt("")>>
                 ELSE NA
         IN  <<[c \in cols |-> cell(c)]>>
             \o NormRows(Tail(raw_rows), raw_cols, cols, data)

\* lines 97-114: rename, create the absent columns, coerce, broadcast the date
normalizar(df_raw, data) ==
    LET cols == {Rename(c) : c \in df_raw.columns}
                \cup {"cliente", "data_ref"} \cup NUMERIC_COLS
    IN  [columns |-> cols,
         rows |-> NormRows(df_raw.rows, df_raw.columns, cols, data)]

\* df["valor_rf"] = df.apply(escolher_valor_rf, axis=1)
com_valor_rf(d) ==
    [columns |-> d.columns \cup {"valor_rf"},
     rows |-> [i \in 1..Len(d.rows) |->
                 ("valor_rf" :> escolher_valor_rf(d.rows[i])) @@ d.rows[i]]]

\* df["classe_rf"] = df.apply(lambda row: classificar_linha(...), axis=1)
com_classe_rf(d) ==
    [columns |-> d.columns \cup {"classe_rf"},
     rows |-> [i \in 1..Len(d.rows) |->
                 ("classe_rf" :> <<classificar_linha(d.rows[i].tipo_produto,
                                                     d.rows[i].ativo)>>)
                 @@ d.rows[i]]]

-----------------------------------------------------------------------------
(* Dates.                                                                  *)

DateLeq(a, b) ==
    \/ a[1] < b[1]
    \/ a[1] = b[1] /\ a[2] < b[2]
    \/ a[1] = b[1] /\ a[2] = b[2] /\ a[3] <= b[3]

\* df["data_ref"].max(): NaT for a frame without rows
max_data_ref(d) ==
    IF Len(d.rows) = 0 THEN NaT
    ELSE LET S == {d.rows[i].data_ref : i \in DOMAIN d.rows}
         IN  CHOOSE m \in S : \A x \in S : DateLeq(x, m)

\* dt.to_period("M").dt.to_timestamp(): first day of the month, NaT stays NaT
mes(d) == IF d = NaT THEN NaT ELSE <<d[1], d[2], 1>>

-----------------------------------------------------------------------------
(* The daily summary and the history file.                                 *)

\* mutant: the two amounts of the total row are swapped
resumo_total_trocado(data_ref_unica, total, auc) ==
    <<[data_ref |-> data_ref_unica, tipo |-> "total", categoria |-> <<Txt("RF Total")>>,
       auc_rf |-> auc, auc_total_convexa |-> total]>>

resumo_total(data_ref_unica, total, auc) ==
    <<[data_ref |-> data_ref_unica, tipo |-> "total", categoria |-> <<Txt("RF Total")>>,
       auc_rf |-> total, auc_total_convexa |-> auc]>>

\* resumo_prod / resumo_class: the group frame with the date, the type and the
\* firm AuC, its key column renamed to categoria
resumo_grupo(grp, col, tipo, data_ref_unica, auc) ==
    [i \in 1..Len(grp) |->
        [data_ref |-> data_ref_unica, tipo |-> tipo, categoria |-> grp[i][col],
         auc_rf |-> grp[i].auc_rf, auc_total_convexa |-> auc]]

\* pd.concat([resumo_total, resumo_prod, resumo_class], ignore_index=True)
concat_resumo(data_ref_unica, total, gprod, gclass, auc) ==
    resumo_total(data_ref_unica, total, auc)
    \o resumo_grupo(gprod, "tipo_produto", "produto", data_ref_unica, auc)
    \o resumo_grupo(gclass, "classe_rf", "classe", data_ref_unica, auc)

\* mutant: the batch of the day replaces the earlier batches of the same date
gravar_historico_por_data(h, resumo) ==
    [exists |-> TRUE,
     rows |-> SelectSeq(h.rows, LAMBDA e : e.data_ref # resumo[1].data_ref) \o resumo]

\* lines 357-364: read the file if it exists, concatenate, write everything back
gravar_historico(h, resumo) ==
    IF h.exists
    THEN [exists |-> TRUE, rows |-> h.rows \o resumo]
    ELSE [exists |-> TRUE, rows |-> resumo]

\* lines 368-370: the file read back, with the month column
ler_historico(h) ==
    [i \in 1..Len(h.rows) |-> ("mes" :> mes(h.rows[i].data_ref)) @@ h.rows[i]]

\* historico[tipo == "total"].groupby("mes")["auc_rf"].sum(): groupby drops
\* the rows whose key is missing
serie_total(historico) ==
    LET T == SelectSeq(historico, LAMBDA r : r.tipo = "total" /\ r.mes # NaT)
    IN  [m \in {T[i].mes : i \in DOMAIN T} |->
            SumCol(SelectSeq(T, LAMBDA r : r.mes = m), "auc_rf")]

\* the rows that reach historico[tipo == t].groupby(["mes", "categoria"])
hist_grupo(historico, t) ==
    SelectSeq(historico,
              LAMBDA r : r.tipo = t /\ r.mes # NaT /\ ~isna(r.categoria))

\* .sum().reset_index().pivot(index="mes", columns="categoria",
\*                             values="auc_rf").fillna(0.0)
pivot(G) ==
    [m \in {G[i].mes : i \in DOMAIN G} |->
        [c \in {G[i].categoria[1] : i \in DOMAIN G} |->
            SumCol(SelectSeq(G, LAMBDA r : r.mes = m /\ r.categoria[1] = c),
                   "auc_rf")]]

-----------------------------------------------------------------------------
(* Inputs of a run.                                                        *)

MaxSaves == 2   \* batches the history file may hold

H_CONTA == "Conta"
H_NOME == "Nome"
H_EMISSOR == "Emissor"
H_PRODUTO == "Produto"
H_ATIVO == "Ativo"
H_VBC == "Valor Bruto - Curva Cliente"
H_VBM == "Valor Bruto - Curva Mercado"
H_VLC == "Valor Líquido - Curva Cliente"

Linha(conta, nome, emissor, produto, ativo, vbc, vbm, vlc) ==
    (H_CONTA :> conta) @@ (H_NOME :> nome) @@ (H_EMISSOR :> emissor)
    @@ (H_PRODUTO :> produto) @@ (H_ATIVO :> ativo)
    @@ (H_VBC :> vbc) @@ (H_VBM :> vbm) @@ (H_VLC :> vlc)

\* a table with the given headers: each full line cut down to them
Tabela(cols, linhas) ==
    [columns |-> cols,
     rows |-> [i \in 1..Len(linhas) |-> [c \in cols |-> linhas[i][c]]]]

L_CDB == Linha(<<Txt("001")>>, <<Txt("Ana")>>, <<Txt("BTG")>>, <<Txt("CDB")>>,
               <<Txt("CDB BTG 2027")>>, <<100>>, <<90>>, <<95>>)
L_CRI == Linha(<<Txt("002")>>, <<Txt("Bia")>>, NA, <<Txt("CRI")>>,
               <<Txt("CRI Alfa")>>, <<50>>, NA, <<48>>)
L_TD == Linha(<<Txt("003")>>, <<Txt("Caio")>>, <<Txt("STN")>>, NA,
              <<Txt("Tesouro Direto IPCA 2035")>>, NA, <<-200>>, NA)
L_LFT1 == Linha(<<Txt("003")>>, <<Txt("Caio")>>, <<Txt("STN")>>, <<Txt("LFT")>>,
                <<Txt("LFT 2029")>>, <<60>>, <<50>>, NA)
L_LFT2 == Linha(<<Txt("004")>>, <<Txt("Davi")>>, <<Txt("STN")>>, <<Txt("LFT")>>,
                <<Txt("LFT 2031")>>, <<30>>, <<30>>, NA)
L_NA == Linha(<<Txt("005")>>, NA, <<Txt("XP")>>, NA, NA,
              <<Txt("n/d"), "str">>, NA, NA)
\* the code in lower case between a space and a tab
L_cdb == Linha(<<Txt("005")>>, NA, <<Txt("XP")>>, <<Txt(" cdb") \o <<9>>>>,
               <<Txt("cdb xp")>>, <<70>>, <<Txt("-"), "str">>, NA)
L_NEG == Linha(<<Txt("006")>>, NA, NA, NA, <<Txt("ajuste")>>, <<-70>>, <<-60>>, NA)

H_FULL == {H_CONTA, H_NOME, H_EMISSOR, H_PRODUTO, H_ATIVO, H_VBC, H_VBM, H_VLC}

\* the scenario of two holdings, CDB 100/90 and CRI 50/null
ARQ_CENARIO == Tabela(H_FULL, <<L_CDB, L_CRI>>)
\* headers only
ARQ_VAZIO == Tabela(H_FULL, <<>>)
\* no issuer column, market curve only; a missing product; a negative total
ARQ_MERCADO == Tabela({H_CONTA, H_PRODUTO, H_ATIVO, H_VBM}, <<L_TD, L_LFT1, L_LFT2>>)
\* client curve only; missing products; unparseable cells; total zero
ARQ_NULOS == Tabela({H_CONTA, H_EMISSOR, H_PRODUTO, H_ATIVO, H_VBC},
                    <<L_NA, L_cdb, L_NEG>>)
\* Produto missing from the headers
ARQ_SEM_BASE == Tabela({H_CONTA, H_ATIVO, H_VBC, H_VBM}, <<L_CDB>>)
\* neither gross value column
ARQ_SEM_VALOR == Tabela({H_CONTA, H_PRODUTO, H_ATIVO, H_VLC}, <<L_CDB>>)

\* the files a user may upload, by file name
ARQUIVOS ==
    ("cenario.csv" :> ARQ_CENARIO) @@ ("vazio.csv" :> ARQ_VAZIO)
    @@ ("mercado.csv" :> ARQ_MERCADO) @@ ("nulos.csv" :> ARQ_NULOS)
    @@ ("sem_base.csv" :> ARQ_SEM_BASE) @@ ("sem_valor.csv" :> ARQ_SEM_VALOR)

\* file_uploader: nothing, or one of the files
UPLOADS == {NA} \cup {<<n>> : n \in DOMAIN ARQUIVOS}

\* load_data(uploaded_file)
load_data(file) == ARQUIVOS[file[1]]

\* number_input(min_value=0.0): never negative
AUC_INPUTS == {0, 1000}

\* two days of one month and one of the next
DATE_INPUTS == {<<2024, 1, 10>>, <<2024, 1, 25>>, <<2024, 2, 5>>}

-----------------------------------------------------------------------------
(* One execution of the script.                                            *)

SEM_FRAME == [columns |-> {}, rows |-> <<>>]

\* what the script computes up to line 190, for a table that passed validation
df_final(df_raw, data) == com_classe_rf(com_valor_rf(normalizar(df_raw, data)))

\* df[df["valor_rf"] > 0]["conta"].nunique()
nunique_contas(d) ==
    Cardinality({d.rows[i].conta : i \in {j \in DOMAIN d.rows : d.rows[j].valor_rf > 0}}
                \ {NA})

NumBatches(h) == Len(SelectSeq(h.rows, LAMBDA r : r.tipo = "total"))

\* the fatal preconditions, in the order the script meets them
SemArquivo(file) == file = NA
ColunasFaltando(file) == ~SemArquivo(file) /\ Len(missing_base(load_data(file))) > 0
SemValor(file) ==
    ~SemArquivo(file) /\ ~ColunasFaltando(file) /\ no_value_col(load_data(file))
\* mutant: only a negative firm AuC is refused
AucInvalido_negativo(file, auc) ==
    ~SemArquivo(file) /\ ~ColunasFaltando(file) /\ ~SemValor(file) /\ auc < 0

AucInvalido(file, auc) ==
    ~SemArquivo(file) /\ ~ColunasFaltando(file) /\ ~SemValor(file) /\ auc <= 0
Fatal(file, auc) ==
    SemArquivo(file) \/ ColunasFaltando(file) \/ SemValor(file) \/ AucInvalido(file, auc)

\* the table passed the validation of lines 68-83
Validado(file) == ~SemArquivo(file) /\ ~ColunasFaltando(file) /\ ~SemValor(file)

\* st.stop(): nothing below is rendered or written; the frames of the tabs, the
\* batch of the day and the series of the history are never computed
Stop(tags) ==
    /\ rendered' = tags
    /\ hist_file' = hist_file
    /\ grp_prod' = <<>>
    /\ grp_class' = <<>>
    /\ grp_emissor' = <<>>
    /\ resumo_dia' = <<>>
    /\ hist_total' = <<>>
    /\ pivot_prod' = <<>>
    /\ pivot_class' = <<>>

\* a halt before line 97: the working frame and the totals do not exist yet
SemCalculo ==
    /\ df' = SEM_FRAME
    /\ total_rf' = 0
    /\ contas_com_rf' = 0

\* lines 44-46
RunSemArquivo(file) ==
    /\ SemArquivo(file)
    /\ SemCalculo
    /\ Stop({"info:upload"})

\* lines 59-77
RunColunasFaltando(file) ==
    /\ ColunasFaltando(file)
    /\ SemCalculo
    /\ Stop({"dataframe:df_raw", "error:missing_base"})

\* lines 79-83
RunSemValor(file) ==
    /\ SemValor(file)
    /\ SemCalculo
    /\ Stop({"dataframe:df_raw", "error:value_cols"})

\* lines 97-191: the working frame and the two totals, computed before the
\* firm AuC is looked at
ate_total(df_raw, data) ==
    LET d == df_final(df_raw, data)
    IN  [df |-> d,
         total_rf |-> SumCol(d.rows, "valor_rf"),
         contas_com_rf |-> nunique_contas(d)]

\* ate_total, tabulated once over the inputs of the model (merging with the
\* empty function makes the table explicit instead of a rule applied per use)
ATE_TOTAL ==
    [x \in {y \in UPLOADS \X DATE_INPUTS : Validado(y[1])} |->
        ate_total(load_data(x[1]), x[2])] @@ <<>>

\* lines 59-195: the halt of line 193 comes after the frame and the totals
RunAucInvalido(file, auc, data) ==
    /\ AucInvalido(file, auc)
    /\ LET c == ATE_TOTAL[<<file, data>>]
       IN  /\ df' = c.df
           /\ total_rf' = c.total_rf
           /\ contas_com_rf' = c.contas_com_rf
    /\ Stop({"dataframe:df_raw", "write:data_ref", "error:auc"})

\* lines 197-355: what a run that passed the AuC check derives from the frame
\* and the total of lines 97-191
calcular(b, auc) ==
    LET data_ref_unica == max_data_ref(b.df)
        gprod == com_pct(groupby_sum(b.df, "tipo_produto"), b.total_rf, auc)
        gclass == com_pct(groupby_sum(b.df, "classe_rf"), b.total_rf, auc)
    IN  [df |-> b.df,
         total_rf |-> b.total_rf,
         contas_com_rf |-> b.contas_com_rf,
         grp_prod |-> gprod,
         grp_class |-> gclass,
         grp_emissor |-> IF "emissor" \in b.df.columns
                         THEN com_pct(groupby_sum(b.df, "emissor"), b.total_rf, auc)
                         ELSE <<>>,
         resumo_dia |-> concat_resumo(data_ref_unica, b.total_rf, gprod, gclass, auc)]

\* calcular, tabulated in the same way
CALCULADO ==
    [x \in {y \in UPLOADS \X AUC_INPUTS \X DATE_INPUTS : ~Fatal(y[1], y[2])} |->
        calcular(ATE_TOTAL[<<x[1], x[3]>>], x[2])] @@ <<>>

\* lines 197-396, for the frames c computed from the inputs: the tabs, the
\* save, the history read back
Completar(c, salvar) ==
    /\ LET h == IF salvar THEN gravar_historico(hist_file, c.resumo_dia)
                ELSE hist_file
           historico == ler_historico(h)
           hprod == hist_grupo(historico, "produto")
           hclass == hist_grupo(historico, "classe")
       IN  /\ df' = c.df
           /\ total_rf' = c.total_rf
           /\ contas_com_rf' = c.contas_com_rf
           /\ grp_prod' = c.grp_prod
           /\ grp_class' = c.grp_class
           /\ grp_emissor' = c.grp_emissor
           /\ resumo_dia' = c.resumo_dia
           /\ hist_file' = h
           /\ hist_total' = IF h.exists THEN serie_total(historico) ELSE <<>>
           /\ pivot_prod' = IF h.exists /\ Len(hprod) > 0 THEN pivot(hprod) ELSE <<>>
           /\ pivot_class' = IF h.exists /\ Len(hclass) > 0 THEN pivot(hclass) ELSE <<>>
           /\ rendered' =
                {"dataframe:df_raw", "write:data_ref", "metric:visao_geral",
                 "dataframe:grp_prod", "bar_chart:grp_prod",
                 "dataframe:grp_class", "bar_chart:grp_class",
                 "subheader:historico"}
                \cup (IF "emissor" \in c.df.columns
                      THEN {"dataframe:grp_emissor", "bar_chart:grp_emissor"}
                      ELSE {"info:emissor"})
                \cup (IF salvar THEN {"success:historico"} ELSE {})
                \cup (IF ~h.exists THEN {"info:sem_historico"}
                      ELSE {"line_chart:hist_total"}
                           \cup (IF Len(hprod) > 0 THEN {"line_chart:pivot_prod"}
                                 ELSE {"info:hist_prod"})
                           \cup (IF Len(hclass) > 0 THEN {"line_chart:pivot_class"}
                                 ELSE {"info:hist_class"}))

\* lines 59-396
RunCompleto(file, auc, salvar, data) ==
    /\ ~Fatal(file, auc)
    /\ salvar => NumBatches(hist_file) < MaxSaves
    /\ Completar(CALCULADO[<<file, auc, data>>], salvar)

Run(file, auc, salvar, data) ==
    /\ uploaded_file' = file
    /\ auc_total_convexa' = auc
    /\ salvar_historico' = salvar
    /\ data_ref_input' = data
    /\ \/ RunSemArquivo(file)
       \/ RunColunasFaltando(file)
       \/ RunSemValor(file)
       \/ RunAucInvalido(file, auc, data)
       \/ RunCompleto(file, auc, salvar, data)

\* before the first run: no history file, the sidebar at its defaults
Init ==
    /\ hist_file = [exists |-> FALSE, rows |-> <<>>]
    /\ uploaded_file = NA
    /\ auc_total_convexa = 0
    /\ salvar_historico = FALSE
    /\ data_ref_input \in DATE_INPUTS
    /\ df = SEM_FRAME
    /\ total_rf = 0
    /\ contas_com_rf = 0
    /\ grp_prod = <<>>
    /\ grp_class = <<>>
    /\ grp_emissor = <<>>
    /\ resumo_dia = <<>>
    /\ hist_total = <<>>
    /\ pivot_prod = <<>>
    /\ pivot_class = <<>>
    /\ rendered = {}

Next ==
    \E file \in UPLOADS, auc \in AUC_INPUTS, salvar \in BOOLEAN, data \in DATE_INPUTS :
        Run(file, auc, salvar, data)

Spec == Init /\ [][Next]_vars

-----------------------------------------------------------------------------
(* The value resolver alone: frames of candidate pairs, then line 134.     *)

MaxValor == 2    \* candidates range over -MaxValor..MaxValor and missing
MaxLinhas == 2   \* rows of such a frame

CANDIDATOS == {NA} \cup {<<v>> : v \in -MaxValor..MaxValor}

LINHAS_VALOR == [valor_bruto_cliente : CANDIDATOS, valor_bruto_mercado : CANDIDATOS]

Ocioso ==
    /\ hist_file = [exists |-> FALSE, rows |-> <<>>]
    /\ uploaded_file = NA
    /\ auc_total_convexa = 0
    /\ salvar_historico = FALSE
    /\ data_ref_input = <<2024, 1, 10>>
    /\ total_rf = 0
    /\ contas_com_rf = 0
    /\ grp_prod = <<>>
    /\ grp_class = <<>>
    /\ grp_emissor = <<>>
    /\ resumo_dia = <<>>
    /\ hist_total = <<>>
    /\ pivot_prod = <<>>
    /\ pivot_class = <<>>
    /\ rendered = {}

InitValor ==
    /\ Ocioso
    /\ \E n \in 1..MaxLinhas : \E rows \in [1..n -> LINHAS_VALOR] :
          df = [columns |-> {"valor_bruto_cliente", "valor_bruto_mercado"},
                rows |-> rows]

\* line 134
AplicarValor ==
    /\ "valor_rf" \notin df.columns
    /\ df' = com_valor_rf(df)
    /\ UNCHANGED <<hist_file, uploaded_file, auc_total_convexa, salvar_historico,
                   data_ref_input, total_rf, contas_com_rf, grp_prod, grp_class,
                   grp_emissor, resumo_dia, hist_total, pivot_prod, pivot_class,
                   rendered>>

SpecValor == InitValor /\ [][AplicarValor]_vars

-----------------------------------------------------------------------------
(* The classifier alone: one holding, then lines 181-184.                  *)

TIPOS_TESTE ==
    {<<t>> : t \in BANCARIOS \cup CREDITO_PRIVADO \cup TPF \cup BANCARIOS_EX_FGC}
    \cup {NA, <<Txt(" cdb ")>>, <<Txt("lci")>>, <<Txt("Debênture")>>,
          <<Txt("debenture")>>, <<Txt("ntnb-p")>>, <<Txt("Lfsn ")>>, <<Txt("XYZ")>>,
          <<Txt("CDBX")>>, <<Txt("LFS")>>, <<Txt("C DB")>>, <<Txt("nan")>>,
          <<Txt("Tesouro Direto")>>, <<Txt("cdb tesouro direto")>>,
          <<Txt("TESOURO  DIRETO")>>, <<Txt("TESOURODIRETO")>>,
          <<Txt("ação")>>,
          \* whitespace other than the space: tab, line feed, no-break space, the
          \* separator U+001F, em space and ideographic space
          <<Txt("CDB") \o <<9>>>>, <<<<9>> \o Txt("LFT")>>, <<Txt("CDB") \o <<10>>>>,
          <<Txt("CDB") \o <<160>>>>, <<Txt("LTN") \o <<31>>>>,
          <<<<8195>> \o Txt("lci") \o <<12288>>>>,
          \* the zero width space U+200B, which is not whitespace
          <<Txt("CDB") \o <<8203>>>>,
          \* letters whose upper case is an ASCII letter or two: dotless i,
          \* long s, sharp s, the ligature of long s and t
          <<Txt("l") \o <<305>> \o Txt("g")>>, <<Txt("lf") \o <<383>> \o Txt("n")>>,
          <<Txt("stra") \o <<223>> \o Txt("e")>>,
          <<<<64261>> \o Txt("esouro direto")>>}

ATIVOS_TESTE ==
    {NA, <<Txt("CDB BANCO X 2027")>>, <<Txt("Tesouro Direto Prefixado 2029")>>,
     <<Txt("ntn-b tesouro direto 2035")>>, <<Txt("  TESOURO DIRETO")>>,
     <<Txt("Tesouro Selic")>>, <<Txt("TESOURO DIRET")>>,
     <<Txt("te") \o <<383>> \o Txt("ouro direto")>>,
     <<Txt("tesouro d") \o <<305>> \o Txt("reto 2030")>>,
     <<Txt("Tesouro") \o <<160>> \o Txt("Direto")>>}

InitClasse ==
    /\ Ocioso
    /\ \E t \in TIPOS_TESTE, a \in ATIVOS_TESTE :
          df = [columns |-> {"tipo_produto", "ativo"},
                rows |-> <<[tipo_produto |-> t, ativo |-> a]>>]

\* lines 181-184
AplicarClasse ==
    /\ "classe_rf" \notin df.columns
    /\ df' = com_classe_rf(df)
    /\ UNCHANGED <<hist_file, uploaded_file, auc_total_convexa, salvar_historico,
                   data_ref_input, total_rf, contas_com_rf, grp_prod, grp_class,
                   grp_emissor, resumo_dia, hist_total, pivot_prod, pivot_class,
                   rendered>>

SpecClasse == InitClasse /\ [][AplicarClasse]_vars

-----------------------------------------------------------------------------
(* Properties.                                                             *)

\* equality of two exact fractions
RatEq(p, q) == p[1] * q[2] = q[1] * p[2]

RowSet(rows) == {rows[i] : i \in DOMAIN rows}

\* the fatal preconditions as the specification lists them: no uploaded file, one
\* of Conta, Produto, Ativo missing from the headers, neither gross value column
\* present, firm AuC <= 0
PrecondicaoFatal(file, auc) ==
    \/ file = NA
    \/ \E c \in {"Conta", "Produto", "Ativo"} : c \notin ARQUIVOS[file[1]].columns
    \/ {"Valor Bruto - Curva Cliente", "Valor Bruto - Curva Mercado"}
          \cap ARQUIVOS[file[1]].columns = {}
    \/ auc <= 0

\* the last run went through to the end of the script
RunChegouAoFim == "subheader:historico" \in rendered

VISOES ==
    {"metric:visao_geral", "dataframe:grp_prod", "bar_chart:grp_prod",
     "dataframe:grp_class", "bar_chart:grp_class", "dataframe:grp_emissor",
     "bar_chart:grp_emissor", "info:emissor", "subheader:historico",
     "success:historico", "line_chart:hist_total", "line_chart:pivot_prod",
     "line_chart:pivot_class", "info:hist_prod", "info:hist_class",
     "info:sem_historico"}

ERROS == {"info:upload", "error:missing_base", "error:value_cols", "error:auc"}

\* a batch made of one total row, then one row per product key of the frame,
\* then one row per class of the frame
FormaDoLote(batch, d) ==
    LET nprod == Cardinality({d.rows[i].tipo_produto : i \in DOMAIN d.rows})
        nclass == Cardinality({d.rows[i].classe_rf : i \in DOMAIN d.rows})
    IN  /\ Len(batch) = 1 + nprod + nclass
        /\ batch[1].tipo = "total"
        /\ \A i \in 2..(1 + nprod) : batch[i].tipo = "produto"
        /\ \A i \in (2 + nprod)..Len(batch) : batch[i].tipo = "classe"

\* C1: the history file only changes by appending.  A run changes it only if
\* save_to_history is enabled and no fatal precondition is met, and then the new
\* file is the previous entries, unchanged and in order, followed by the batch of
\* the run (one total row, the product rows, the class rows); a re-run for a date
\* already logged adds a second batch and removes nothing.
C1_AppendOnly ==
    [][LET salva == salvar_historico'
                    /\ ~PrecondicaoFatal(uploaded_file', auc_total_convexa')
       IN  /\ hist_file' # hist_file => salva
           /\ salva =>
                /\ hist_file'.exists
                /\ hist_file'.rows = hist_file.rows \o resumo_dia'
                /\ FormaDoLote(resumo_dia', df')]_vars

\* C1 witness: the file holds two batches for one reference date, the second
\* appended by a re-run
C1_Witness ==
    /\ salvar_historico
    /\ RunChegouAoFim
    /\ \E i, j \in DOMAIN hist_file.rows :
          /\ i < j
          /\ hist_file.rows[i].tipo = "total"
          /\ hist_file.rows[j].tipo = "total"
          /\ hist_file.rows[i].data_ref # NaT
          /\ hist_file.rows[i].data_ref = hist_file.rows[j].data_ref
          /\ hist_file.rows[j] = resumo_dia[1]
          /\ Len(resumo_dia) > 1

\* the round trip for one group type: every month and every category of the
\* entries of type t has a cell, equal to the sum of the entries of that month
\* and category
RoundTrip(t, pv) ==
    LET E == SelectSeq(hist_file.rows, LAMBDA e : e.tipo = t)
    IN  \A m \in {mes(e.data_ref) : e \in RowSet(E)} :
        \A c \in {e.categoria : e \in RowSet(E)} :
            /\ m \in DOMAIN pv
            /\ ~isna(c)
            /\ c[1] \in DOMAIN pv[m]
            /\ pv[m][c[1]] =
                 SumCol(SelectSeq(E, LAMBDA e : mes(e.data_ref) = m /\ e.categoria = c), "auc_rf")

\* C2: ledger round trip.  After any sequence of saved runs, for each group type
\* produto and classe, the monthly pivot read back from the file has, for every
\* month and every category present in the file for that type, a cell equal to
\* the sum of auc_rf of the entries of that type, category and month (0 when there
\* is none; both batches when a date was saved twice).
C2_RoundTrip ==
    (RunChegouAoFim /\ hist_file.exists) =>
        /\ RoundTrip("produto", pivot_prod)
        /\ RoundTrip("classe", pivot_class)

\* C3: a run that meets a fatal precondition surfaces the error and halts: none of
\* the by-product, by-class, by-issuer or history views is rendered and the
\* history file is left as it was, whatever save_to_history says.
C3_FatalHalts ==
    [][PrecondicaoFatal(uploaded_file', auc_total_convexa') =>
          /\ hist_file' = hist_file
          /\ rendered' \cap VISOES = {}
          /\ rendered' \cap ERROS # {}]_vars

\* C3 witness: a run with save_to_history enabled, over an existing history
\* file, halted on the firm AuC after the frame and its total were computed
C3_Witness ==
    /\ salvar_historico
    /\ hist_file.exists
    /\ auc_total_convexa <= 0
    /\ uploaded_file # NA
    /\ "error:auc" \in rendered
    /\ Len(df.rows) > 0
    /\ total_rf # 0

\* C4: the resolved value of every row is 0 when both candidates are missing,
\* the present one when exactly one is missing, the smaller one when both are
\* present; it is a number, a function of the row's own pair, and a negative
\* candidate is not clamped.
C4_ValueResolver ==
    "valor_rf" \in df.columns =>
        \A i \in DOMAIN df.rows :
            LET a == df.rows[i].valor_bruto_cliente
                b == df.rows[i].valor_bruto_mercado
                v == df.rows[i].valor_rf
            IN  /\ v \in Int
                /\ (a = NA /\ b = NA) => v = 0
                /\ (a = NA /\ b # NA) => v = b[1]
                /\ (a # NA /\ b = NA) => v = a[1]
                /\ (a # NA /\ b # NA) => v \in {a[1], b[1]} /\ v <= a[1] /\ v <= b[1]

\* C4 witness: a resolved frame of two rows, one with both candidates present and
\* the smaller one negative, one with both missing
C4_Witness ==
    /\ "valor_rf" \in df.columns
    /\ \E i, j \in DOMAIN df.rows :
          /\ df.rows[i].valor_bruto_cliente = <<-1>>
          /\ df.rows[i].valor_bruto_mercado = <<2>>
          /\ df.rows[i].valor_rf = -1
          /\ df.rows[j].valor_bruto_cliente = NA
          /\ df.rows[j].valor_bruto_mercado = NA

\* the marker occurs in the text of a cell once its letters are upper-cased
TemMarcador(cell) ==
    LET s == upper(str(cell))
        M == Txt("TESOURO DIRETO")
    IN  \E i \in 1..Len(s) : \E j \in i..Len(s) : SubSeq(s, i, j) = M

\* the code of a cell: trimmed, then upper-cased
Codigo(cell) == upper(strip(str(cell)))

\* C5: the classifier is total and the first match wins: the label is one of the
\* six; it is Tesouro whenever the marker occurs in either field, even for a code
\* of one of the four sets; otherwise it is the label of the set that holds the
\* upper-cased trimmed code, and Outros when none does.
C5_Classifier ==
    "classe_rf" \in df.columns =>
        \A i \in DOMAIN df.rows :
            LET tp == df.rows[i].tipo_produto
                label == df.rows[i].classe_rf[1]
                marcado == TemMarcador(tp) \/ TemMarcador(df.rows[i].ativo)
                Em(S) == \E t \in S : Codigo(tp) = Txt(t)
                bancario == Em({"CDB", "LCA", "LCI", "LC", "LIG", "LCD"})
                credito == Em({"CRA", "CRI", "CDCA", "DEBENTURE", "DEBÊNTURE"})
                tpf == Em({"NTNB", "LFT", "NTNF", "NTNB-P", "LTN"})
                ex_fgc == Em({"LF", "LFSN", "LFSC"})
            IN  /\ label \in {Txt("Tesouro"), Txt("Bancário"), Txt("Crédito Privado"),
                              Txt("TPF"), Txt("Bancário ex-FGC"), Txt("Outros")}
                /\ marcado => label = Txt("Tesouro")
                /\ ~marcado =>
                     /\ bancario <=> label = Txt("Bancário")
                     /\ credito <=> label = Txt("Crédito Privado")
                     /\ tpf <=> label = Txt("TPF")
                     /\ ex_fgc <=> label = Txt("Bancário ex-FGC")
                     /\ ~(bancario \/ credito \/ tpf \/ ex_fgc) <=> label = Txt("Outros")

\* C5 witness: a holding whose code is in the bank set and whose description
\* carries the marker in lower case was labelled Tesouro
C5_Witness ==
    /\ "classe_rf" \in df.columns
    /\ \E i \in DOMAIN df.rows :
          /\ df.rows[i].tipo_produto = <<Txt("CDB")>>
          /\ df.rows[i].ativo = <<Txt("ntn-b tesouro direto 2035")>>
          /\ df.rows[i].classe_rf = <<Txt("Tesouro")>>

\* the frames of groups the last run computed, each with its key column
GRUPOS ==
    {<<grp_prod, "tipo_produto">>, <<grp_class, "classe_rf">>}
    \cup (IF "emissor" \in df.columns THEN {<<grp_emissor, "emissor">>} ELSE {})

\* C6: for every grouping and every group, pct_of_rf_total is
\* 100 * group_sum / total_rf, and 0.0 exactly when total_rf = 0, for every input,
\* negative values and a negative total_rf included.
C6_PctOfTotal ==
    RunChegouAoFim =>
        \A x \in GRUPOS : \A i \in DOMAIN x[1] :
            LET g == x[1][i]
            IN  IF total_rf = 0
                THEN RatEq(g.pct_estoque_rf, <<0, 1>>)
                ELSE RatEq(g.pct_estoque_rf, <<100 * g.auc_rf, total_rf>>)

\* C7: aggregation is exhaustive: for each grouping key every holding falls in
\* exactly one group, a missing key forms a group of its own, each group sums the
\* resolved values of its holdings, and the group sums add up to total_rf, the sum
\* of the resolved values of all holdings.
C7_Exhaustive ==
    RunChegouAoFim =>
        /\ total_rf = SumCol(df.rows, "valor_rf")
        /\ \A x \in GRUPOS :
              LET grp == x[1]
                  col == x[2]
              IN  /\ \A r \in DOMAIN df.rows :
                        Cardinality({i \in DOMAIN grp : grp[i][col] = df.rows[r][col]}) = 1
                  /\ \A i \in DOMAIN grp :
                        /\ \E r \in DOMAIN df.rows : df.rows[r][col] = grp[i][col]
                        /\ grp[i].auc_rf =
                             SumCol(SelectSeq(df.rows, LAMBDA h : h[col] = grp[i][col]), "valor_rf")
                  /\ SumCol(grp, "auc_rf") = total_rf

\* C7 witness: a run whose by-product frame has the group of the missing key and
\* a group of two holdings
C7_Witness ==
    /\ RunChegouAoFim
    /\ \E i, j \in DOMAIN grp_prod :
          /\ isna(grp_prod[i].tipo_produto)
          /\ grp_prod[i].auc_rf # 0
          /\ Cardinality({r \in DOMAIN df.rows :
                             df.rows[r].tipo_produto = grp_prod[j].tipo_produto}) = 2

\* C8: in a run that reaches the history view, each monthly series is drawn from
\* at least one entry of its type or replaced by a message; an empty frame is
\* never drawn as a chart.
C8_NoEmptyChart ==
    RunChegouAoFim =>
        /\ "line_chart:hist_total" \in rendered =>
              /\ DOMAIN hist_total # {}
              /\ \E e \in RowSet(hist_file.rows) : e.tipo = "total"
        /\ "line_chart:pivot_prod" \in rendered =>
              /\ DOMAIN pivot_prod # {}
              /\ \E e \in RowSet(hist_file.rows) : e.tipo = "produto"
        /\ "line_chart:pivot_class" \in rendered =>
              /\ DOMAIN pivot_class # {}
              /\ \E e \in RowSet(hist_file.rows) : e.tipo = "classe"
        /\ \/ "info:sem_historico" \in rendered
           \/ /\ "line_chart:hist_total" \in rendered
              /\ {"line_chart:pivot_prod", "info:hist_prod"} \cap rendered # {}
              /\ {"line_chart:pivot_class", "info:hist_class"} \cap rendered # {}

\* the holdings of the end-to-end scenario: CDB 100/90 and CRI 50/null
Cenario ==
    /\ Len(df.rows) = 2
    /\ df.rows[1].tipo_produto = <<Txt("CDB")>>
    /\ df.rows[1].valor_bruto_cliente = <<100>>
    /\ df.rows[1].valor_bruto_mercado = <<90>>
    /\ df.rows[2].tipo_produto = <<Txt("CRI")>>
    /\ df.rows[2].valor_bruto_cliente = <<50>>
    /\ df.rows[2].valor_bruto_mercado = NA
    /\ auc_total_convexa = 1000

\* C9: the class sums are the sums of the resolved values of the holdings of each
\* class and pct_of_firm_auc is 100 * group_sum / firm_auc; for the scenario the
\* by-class result is Bancário 90 and Crédito Privado 50, total_rf is 140 and
\* pct_of_firm_auc of Bancário is 9.
C9_EndToEnd ==
    RunChegouAoFim =>
        /\ \A i \in DOMAIN grp_class :
              /\ grp_class[i].auc_rf =
                   SumCol(SelectSeq(df.rows, LAMBDA h : h.classe_rf = grp_class[i].classe_rf), "valor_rf")
              /\ RatEq(grp_class[i].pct_auc_convexa,
                       <<100 * grp_class[i].auc_rf, auc_total_convexa>>)
        /\ Cenario =>
              /\ {<<grp_class[i].classe_rf[1], grp_class[i].auc_rf>> : i \in DOMAIN grp_class}
                   = {<<Txt("Bancário"), 90>>, <<Txt("Crédito Privado"), 50>>}
              /\ Len(grp_class) = 2
              /\ total_rf = 140
              /\ \A i \in DOMAIN grp_class :
                    grp_class[i].classe_rf = <<Txt("Bancário")>> =>
                        RatEq(grp_class[i].pct_auc_convexa, <<9, 1>>)

\* C9 witness: the run over the scenario finished
C9_Witness == RunChegouAoFim /\ Cenario /\ Len(grp_class) = 2

\* C10: every entry of the history file has a type among total, produto, classe
\* and a positive firm AuC, and for every calendar month the auc_rf of the total
\* entries, of the product entries and of the class entries add up to the same.
C10_LedgerConsistent ==
    LET E == hist_file.rows
        SumTipo(t, m) ==
            SumCol(SelectSeq(E, LAMBDA e : e.tipo = t /\ mes(e.data_ref) = m), "auc_rf")
    IN  /\ \A e \in RowSet(E) :
              /\ e.tipo \in {"total", "produto", "classe"}
              /\ e.auc_total_convexa > 0
        /\ \A m \in {mes(e.data_ref) : e \in RowSet(E)} \ {NaT} :
              /\ SumTipo("total", m) = SumTipo("produto", m)
              /\ SumTipo("total", m) = SumTipo("classe", m)

\* C10 witness: two batches of one month, from different days, with a total that
\* is not zero
C10_Witness ==
    \E i, j \in DOMAIN hist_file.rows :
        /\ i < j
        /\ hist_file.rows[i].tipo = "total"
        /\ hist_file.rows[j].tipo = "total"
        /\ hist_file.rows[i].data_ref # NaT
        /\ hist_file.rows[j].data_ref # NaT
        /\ hist_file.rows[i].data_ref # hist_file.rows[j].data_ref
        /\ mes(hist_file.rows[i].data_ref) = mes(hist_file.rows[j].data_ref)
        /\ hist_file.rows[i].auc_rf > 0
        /\ hist_file.rows[j].auc_rf < 0

=============================================================================
